---- MODULE Spec2Model ----
(***************************************************************************)
(* A* grid path planners: AStar (astar.py), AStarOptimized and             *)
(* astar_simple (astar_optimized.py), DynamicAStar and its replanning      *)
(* driver find_path_with_dynamic_updates (astar_dynamic.py).               *)
(*                                                                         *)
(* One find_path call is a small state machine: the entry (validation,     *)
(* start = goal shortcut, initialisation of the open list), then one       *)
(* action per iteration of the `while open:` loop, then the return.        *)
(* Python's heapq is modelled operation by operation (append + sift), so   *)
(* that the order in which entries leave the open list is the order the    *)
(* program produces.                                                       *)
(***************************************************************************)
EXTENDS Integers, Sequences, FiniteSets, TLC

(* ---------------- bounds of the model ---------------- *)
MaxW == 3
MaxH == 2
MaxObstacles == 1
MaxReplans == 1
MaxPulled == 1
MaxCalls == 2
MaxStep == 1

(* float('inf') of Node.__init__ and of the reset loop: larger than any    *)
(* cost that can occur on the grids of the model.                          *)
Inf == 1000000

(* None *)
NoneV == <<>>

VARIABLES
  engine,       \* which planner this instance is
  width, height,
  obstacles,    \* AStar: cells whose Node.is_obstacle is True; others: self.obstacles
  pc,           \* position of the find_path call: "idle", "search", "done"
  start, goal,  \* arguments of the running find_path call
  result,       \* what the call returned or raised
  g_cost, h_cost, f_cost, parent,   \* AStar: fields of the Node objects of self.grid
  open_set,     \* AStar: heap list of nodes; DynamicAStar: heap list of (f, pos)
  closed_set,   \* AStar, AStarOptimized, astar_simple
  g_costs, parents, open_heap,      \* AStarOptimized, astar_simple
  g_score, f_score, came_from,      \* DynamicAStar
  dpc,          \* position of find_path_with_dynamic_updates: "off", "loop", "call", "after", "ret"
  current_start, dgoal, attempt, max_replans, obstacle_callback,
  dresult,      \* what the driver returned or raised
  pulls, searches, successes, last_pulled,  \* history of the driver run
  pushes, pops, writes,             \* history of the find_path call
  calls,        \* number of find_path calls that have returned on this instance
  first_call,   \* arguments and outcome of the first of them
  dynamic_obstacles   \* the schedule a caller of find_path_with_dynamic_obstacles holds: pairs <<step, cell>>

vars == <<engine, width, height, obstacles, pc, start, goal, result,
          g_cost, h_cost, f_cost, parent, open_set, closed_set,
          g_costs, parents, open_heap, g_score, f_score, came_from,
          dpc, current_start, dgoal, attempt, max_replans, obstacle_callback,
          dresult, pulls, searches, successes, last_pulled,
          pushes, pops, writes, calls, first_call, dynamic_obstacles>>

astarVars == <<g_cost, h_cost, f_cost, parent>>
optVars == <<g_costs, parents, open_heap>>
dynVars == <<g_score, f_score, came_from>>
driverVars == <<dpc, current_start, dgoal, attempt, max_replans, obstacle_callback,
                dresult, pulls, searches, successes, last_pulled>>
instVars == <<engine, width, height>>
histVars == <<calls, first_call>>

(* ---------------- grid ---------------- *)
Abs(n) == IF n < 0 THEN -n ELSE n

Cells(w, h) == (0 .. w - 1) \X (0 .. h - 1)

InBounds(x, y, w, h) == 0 <= x /\ x < w /\ 0 <= y /\ y < h

(* the coordinates callers pass: every cell of the grid, a cell with a     *)
(* negative coordinate and a cell with a coordinate one too large          *)
OutCells(w, h) == {<<-1, 0>>, <<0, h>>}
InputCells(w, h) == Cells(w, h) \cup OutCells(w, h)

directions == << <<0, 1>>, <<1, 0>>, <<0, -1>>, <<-1, 0>> >>

(* an estimate that is no lower bound: twice the distance *)
manhattan_distance_doubled(p, q) == 2 * (Abs(p[1] - q[1]) + Abs(p[2] - q[2]))

manhattan_distance(p, q) == Abs(p[1] - q[1]) + Abs(p[2] - q[2])

SeqToSet(s) == {s[i] : i \in 1 .. Len(s)}

Reverse(s) == [i \in 1 .. Len(s) |-> s[Len(s) + 1 - i]]

(* results of a call *)
Pending == [kind |-> "pending", path |-> <<>>, endpoint |-> "", text |-> "", at |-> <<>>]
PathResult(p) == [kind |-> "path", path |-> p, endpoint |-> "", text |-> "", at |-> <<>>]
NoneResult == [kind |-> "None", path |-> <<>>, endpoint |-> "", text |-> "", at |-> <<>>]
ValueError(e, t, a) == [kind |-> "ValueError", path |-> <<>>, endpoint |-> e, text |-> t, at |-> a]
NameError == [kind |-> "NameError", path |-> <<>>, endpoint |-> "", text |-> "", at |-> <<>>]
KeyError == [kind |-> "KeyError", path |-> <<>>, endpoint |-> "", text |-> "", at |-> <<>>]
NoReturn == [kind |-> "NoReturn", path |-> <<>>, endpoint |-> "", text |-> "", at |-> <<>>]
TypeError == [kind |-> "TypeError", path |-> <<>>, endpoint |-> "", text |-> "", at |-> <<>>]

(* ---------------- heapq ---------------- *)
(* Lexicographic order of Python tuples of integers.                       *)
RECURSIVE LexLt(_, _)
LexLt(a, b) ==
  IF a = <<>> THEN b # <<>>
  ELSE IF b = <<>> THEN FALSE
  ELSE IF a[1] < b[1] THEN TRUE
  ELSE IF b[1] < a[1] THEN FALSE
  ELSE LexLt(Tail(a), Tail(b))

(* the comparison turned round: the heap gives up its largest entry *)
ItemLt_reversed(a, b, kind, fc) ==
  CASE kind = "node" -> fc[b] < fc[a]
    [] kind = "fhxy" -> LexLt(b, a)
    [] kind = "fpos" -> IF a[1] # b[1] THEN b[1] < a[1] ELSE LexLt(b[2], a[2])

(* a < b for two heap entries.                                             *)
(*   "node" : AStar, entries are Node objects: Node.__lt__ compares the    *)
(*            f_cost the two nodes have NOW (fc), whatever it was when     *)
(*            the node was pushed;                                         *)
(*   "fhxy" : AStarOptimized, entries are tuples (f_cost, h_cost, x, y);   *)
(*   "fpos" : astar_simple and DynamicAStar, entries are (f, (x, y)).      *)
ItemLt(a, b, kind, fc) ==
  CASE kind = "node" -> fc[a] < fc[b]
    [] kind = "fhxy" -> LexLt(a, b)
    [] kind = "fpos" -> IF a[1] # b[1] THEN a[1] < b[1] ELSE LexLt(a[2], b[2])

(* heapq._siftdown(heap, startpos, pos) with newitem carried along;        *)
(* positions are Python's (0-based), heap[pos] is heap[pos + 1] here.      *)
RECURSIVE SiftDownFrom(_, _, _, _, _, _)
SiftDownFrom(heap, startpos, pos, newitem, kind, fc) ==
  IF pos > startpos
  THEN LET parentpos == (pos - 1) \div 2
           parentitem == heap[parentpos + 1]
       IN IF ItemLt(newitem, parentitem, kind, fc)
          THEN SiftDownFrom([heap EXCEPT ![pos + 1] = parentitem],
                            startpos, parentpos, newitem, kind, fc)
          ELSE [heap EXCEPT ![pos + 1] = newitem]
  ELSE [heap EXCEPT ![pos + 1] = newitem]

siftdown(heap, startpos, pos, kind, fc) ==
  SiftDownFrom(heap, startpos, pos, heap[pos + 1], kind, fc)

(* heapq._siftup(heap, pos): bubble the smaller child up until a leaf,     *)
(* then sift the displaced item down from there.                           *)
RECURSIVE SiftUpFrom(_, _, _, _, _, _)
SiftUpFrom(heap, startpos, pos, newitem, kind, fc) ==
  LET endpos == Len(heap)
      leftpos == 2 * pos + 1
      rightpos == leftpos + 1
  IN IF leftpos < endpos
     THEN LET childpos ==
                IF rightpos < endpos
                   /\ ~ItemLt(heap[leftpos + 1], heap[rightpos + 1], kind, fc)
                THEN rightpos ELSE leftpos
          IN SiftUpFrom([heap EXCEPT ![pos + 1] = heap[childpos + 1]],
                        startpos, childpos, newitem, kind, fc)
     ELSE siftdown([heap EXCEPT ![pos + 1] = newitem], startpos, pos, kind, fc)

siftup(heap, pos, kind, fc) == SiftUpFrom(heap, pos, pos, heap[pos + 1], kind, fc)

(* heapq.heappush(heap, item) *)
heappush(heap, item, kind, fc) ==
  siftdown(Append(heap, item), 0, Len(heap), kind, fc)

(* the least entry read, not removed: heap[0] in place of heappop(heap) *)
heappop_peek(heap, kind, fc) == [item |-> heap[1], heap |-> heap]

(* heapq.heappop(heap) on a non-empty heap: [item, heap] *)
heappop(heap, kind, fc) ==
  LET lastelt == heap[Len(heap)]
      rest == SubSeq(heap, 1, Len(heap) - 1)
  IN IF rest # <<>>
     THEN [item |-> rest[1], heap |-> siftup([rest EXCEPT ![1] = lastelt], 0, kind, fc)]
     ELSE [item |-> lastelt, heap |-> <<>>]

(* ---------------- AStar (astar.py) ---------------- *)
(* get_neighbors without the is_obstacle test *)
AStar_get_neighbors_through(node, w, h, obs) ==
  LET cand == [i \in 1 .. Len(directions) |->
                 <<node[1] + directions[i][1], node[2] + directions[i][2]>>]
      Keep(c) == InBounds(c[1], c[2], w, h)
  IN SelectSeq(cand, Keep)

(* AStar.get_neighbors: the in-bounds, non-obstacle cells among the four   *)
(* axis neighbours, in the order of `directions`.                          *)
AStar_get_neighbors(node, w, h, obs) ==
  LET cand == [i \in 1 .. Len(directions) |->
                 <<node[1] + directions[i][1], node[2] + directions[i][2]>>]
      Keep(c) == InBounds(c[1], c[2], w, h) /\ c \notin obs
  IN SelectSeq(cand, Keep)

(* AStar.heuristic / Node.manhattan_distance_to *)
heuristic(node, goalnode) == manhattan_distance(node, goalnode)

(* AStar._reconstruct_path: follow Node.parent until None, then reverse.   *)
(* A parent chain that never reaches None makes the loop run forever:      *)
(* fuel counts the nodes of the grid and the walk reports NoReturn.        *)
RECURSIVE AStar_walk(_, _, _, _)
AStar_walk(par, current, path, fuel) ==
  IF current = NoneV THEN PathResult(Reverse(path))
  ELSE IF fuel = 0 THEN NoReturn
  ELSE AStar_walk(par, par[current], Append(path, current), fuel - 1)

(* the walk begun at the parent of the node, leaving the node itself out *)
AStar_reconstruct_path_fromParent(par, node) ==
  AStar_walk(par, par[node], <<>>, Cardinality(DOMAIN par) + 1)

AStar_reconstruct_path(par, node) ==
  AStar_walk(par, node, <<>>, Cardinality(DOMAIN par) + 1)

(* `tentative_g_cost < neighbor.g_cost` *)
AStar_better(tentative, old) == tentative < old

(* `if neighbor not in open_set` *)
AStar_must_push(neighbor, heap) == neighbor \notin SeqToSet(heap)

(* the body of `for neighbor in self.get_neighbors(current)` for the       *)
(* neighbours nbrs[i..]; st holds the node fields and the heap.            *)
RECURSIVE AStar_relax(_, _, _, _, _, _)
AStar_relax(st, current, goalnode, closed, nbrs, i) ==
  IF i > Len(nbrs) THEN st
  ELSE LET neighbor == nbrs[i]
           tentative_g_cost == st.g[current] + 1
       IN IF neighbor \in closed
          THEN AStar_relax(st, current, goalnode, closed, nbrs, i + 1)
          ELSE IF AStar_better(tentative_g_cost, st.g[neighbor])
          THEN LET hn == heuristic(neighbor, goalnode)
                   f2 == [st.f EXCEPT ![neighbor] = tentative_g_cost + hn]
                   push == AStar_must_push(neighbor, st.open)
                   st2 == [g |-> [st.g EXCEPT ![neighbor] = tentative_g_cost],
                           h |-> [st.h EXCEPT ![neighbor] = hn],
                           f |-> f2,
                           parent |-> [st.parent EXCEPT ![neighbor] = current],
                           open |-> IF push THEN heappush(st.open, neighbor, "node", f2)
                                    ELSE st.open,
                           pushes |-> st.pushes + (IF push THEN 1 ELSE 0),
                           writes |-> st.writes + 1]
               IN AStar_relax(st2, current, goalnode, closed, nbrs, i + 1)
          ELSE AStar_relax(st, current, goalnode, closed, nbrs, i + 1)

(* AStar.set_obstacle(x, y, is_obstacle) *)
set_obstacle(x, y, is_obstacle) ==
  /\ engine = "AStar" /\ pc = "idle"
  /\ obstacles' = IF InBounds(x, y, width, height)
                  THEN IF is_obstacle THEN obstacles \cup {<<x, y>>}
                       ELSE obstacles \ {<<x, y>>}
                  ELSE obstacles
  /\ UNCHANGED <<instVars, histVars, dynamic_obstacles, pc, start, goal, result, astarVars, open_set,
                 closed_set, optVars, dynVars, driverVars, pushes, pops, writes>>

(* the validation without the test of the goal node's obstacle flag *)
CheckEndpoints_goalUnchecked(s, g, w, h, obs) ==
  IF ~InBounds(s[1], s[2], w, h) THEN ValueError("start", "out_of_range", s)
  ELSE IF ~InBounds(g[1], g[2], w, h) THEN ValueError("goal", "out_of_range", g)
  ELSE IF s \in obs THEN ValueError("start", "is_obstacle", <<>>)
  ELSE Pending

(* the validation at the head of AStar.find_path and DynamicAStar.find_path: *)
(* the error raised, or Pending when both endpoints pass.                  *)
CheckEndpoints(s, g, w, h, obs) ==
  IF ~InBounds(s[1], s[2], w, h) THEN ValueError("start", "out_of_range", s)
  ELSE IF ~InBounds(g[1], g[2], w, h) THEN ValueError("goal", "out_of_range", g)
  ELSE IF s \in obs THEN ValueError("start", "is_obstacle", <<>>)
  ELSE IF g \in obs THEN ValueError("goal", "is_obstacle", <<>>)
  ELSE Pending

(* the shortcut never taken: the search runs even when start = goal *)
SameCell_never(s, g) == FALSE

(* `if start_node == goal_node: return [start]` *)
SameCell(s, g) == s = g

(* the reset loop leaving the costs of the last search in the nodes *)
ResetCosts_kept(old) == old

(* the reset loop of AStar.find_path on g_cost and on f_cost: every node   *)
(* gets float('inf')                                                       *)
ResetCosts(old) == [c \in DOMAIN old |-> Inf]

(* the reset loop leaving the parent links of the last search in the nodes *)
ResetParents_kept(old) == old

(* the reset loop of AStar.find_path on parent: every node gets None *)
ResetParents(old) == [c \in DOMAIN old |-> NoneV]

(* AStar.find_path(start, goal) up to the first test of `while open_set`.  *)
AStar_find_path(s, g) ==
  /\ engine = "AStar" /\ pc = "idle"
  /\ start' = s /\ goal' = g
  /\ pops' = 0
  /\ LET err == CheckEndpoints(s, g, width, height, obstacles)
     IN IF err # Pending
        THEN /\ result' = err /\ pc' = "done"
             /\ pushes' = 0 /\ writes' = 0
             /\ UNCHANGED <<astarVars, open_set, closed_set>>
        ELSE IF SameCell(s, g)
        THEN /\ result' = PathResult(<<s>>) /\ pc' = "done"
             /\ pushes' = 0 /\ writes' = 0
             /\ UNCHANGED <<astarVars, open_set, closed_set>>
        ELSE LET h0 == heuristic(s, g)
                 g1 == [ResetCosts(g_cost) EXCEPT ![s] = 0]
                 f1 == [ResetCosts(f_cost) EXCEPT ![s] = 0 + h0]
             IN /\ g_cost' = g1
                /\ f_cost' = f1
                /\ h_cost' = [h_cost EXCEPT ![s] = h0]
                /\ parent' = ResetParents(parent)
                /\ open_set' = heappush(<<>>, s, "node", f1)
                /\ closed_set' = {}
                /\ pushes' = 1
                /\ writes' = Cardinality(Cells(width, height)) + 1
                /\ result' = Pending /\ pc' = "search"
  /\ UNCHANGED <<instVars, histVars, dynamic_obstacles, obstacles, optVars, dynVars, driverVars>>

(* one iteration of `while open_set:` in AStar.find_path *)
AStar_step ==
  /\ engine = "AStar" /\ pc = "search" /\ open_set # <<>>
  /\ LET popped == heappop(open_set, "node", f_cost)
         current == popped.item
     IN /\ pops' = pops + 1
        /\ IF current = goal
           THEN /\ result' = AStar_reconstruct_path(parent, current)
                /\ pc' = "done"
                /\ open_set' = popped.heap
                /\ UNCHANGED <<astarVars, closed_set, pushes, writes>>
           ELSE LET closed2 == closed_set \cup {current}
                    st == AStar_relax([g |-> g_cost, h |-> h_cost, f |-> f_cost,
                                       parent |-> parent, open |-> popped.heap,
                                       pushes |-> pushes, writes |-> writes],
                                      current, goal, closed2,
                                      AStar_get_neighbors(current, width, height, obstacles), 1)
                IN /\ closed_set' = closed2
                   /\ g_cost' = st.g /\ h_cost' = st.h /\ f_cost' = st.f
                   /\ parent' = st.parent /\ open_set' = st.open
                   /\ pushes' = st.pushes /\ writes' = st.writes
                   /\ UNCHANGED <<result, pc>>
  /\ UNCHANGED <<instVars, histVars, dynamic_obstacles, obstacles, start, goal, optVars, dynVars, driverVars>>

(* `while open_set:` is false: `return None` *)
AStar_exhausted ==
  /\ engine = "AStar" /\ pc = "search" /\ open_set = <<>>
  /\ result' = NoneResult /\ pc' = "done"
  /\ UNCHANGED <<instVars, histVars, dynamic_obstacles, obstacles, start, goal, astarVars, open_set, closed_set,
                 optVars, dynVars, driverVars, pushes, pops, writes>>

(* the call is over: the caller has its outcome and the instance takes the *)
(* next call; MaxCalls bounds the calls followed on one instance           *)
Returned ==
  /\ pc = "done" /\ dpc = "off" /\ calls < MaxCalls
  /\ pc' = "idle"
  /\ calls' = calls + 1
  /\ first_call' = IF calls = 0
                   THEN [start |-> start, goal |-> goal, result |-> result]
                   ELSE first_call

(* return from AStar.find_path: the locals open_set and closed_set are     *)
(* gone, the Node objects of self.grid stay as the call left them          *)
AStar_return ==
  /\ engine = "AStar" /\ Returned
  /\ open_set' = <<>> /\ closed_set' = {}
  /\ UNCHANGED <<instVars, dynamic_obstacles, obstacles, start, goal, result,
                 astarVars, optVars, dynVars, driverVars, pushes, pops, writes>>

(* ---------------- construction ---------------- *)
(* the obstacle lists callers pass: at most MaxObstacles cells, some of    *)
(* them possibly outside the grid                                          *)
RECURSIVE SubsetsUpTo(_, _)
SubsetsUpTo(S, k) ==
  IF k = 0 THEN {{}}
  ELSE LET P == SubsetsUpTo(S, k - 1) IN P \cup {T \cup {x} : T \in P, x \in S}

ObstacleLists(w, h) == SubsetsUpTo(InputCells(w, h), MaxObstacles)

(* only AStar keeps a grid of Node objects (self.grid) *)
NodeCells(eng, w, h) == IF eng = "AStar" THEN Cells(w, h) ELSE {}

(* state shared by every instance before any find_path call; obs is the    *)
(* obstacle set the constructor stored                                     *)
Constructed(eng, w, h, obs) ==
  /\ engine = eng /\ width = w /\ height = h /\ obstacles = obs
  /\ pc = "idle" /\ start = <<0, 0>> /\ goal = <<0, 0>> /\ result = Pending
  /\ g_cost = [c \in NodeCells(eng, w, h) |-> Inf]
  /\ h_cost = [c \in NodeCells(eng, w, h) |-> 0]
  /\ f_cost = [c \in NodeCells(eng, w, h) |-> Inf]
  /\ parent = [c \in NodeCells(eng, w, h) |-> NoneV]
  /\ open_set = <<>> /\ closed_set = {}
  /\ g_costs = <<>> /\ parents = <<>> /\ open_heap = <<>>
  /\ g_score = <<>> /\ f_score = <<>> /\ came_from = <<>>
  /\ dpc = "off" /\ current_start = <<0, 0>> /\ dgoal = <<0, 0>>
  /\ attempt = 0 /\ max_replans = 0 /\ obstacle_callback = FALSE
  /\ dresult = Pending
  /\ pulls = 0 /\ searches = 0 /\ successes = 0 /\ last_pulled = {}
  /\ pushes = 0 /\ pops = 0 /\ writes = 0
  /\ calls = 0 /\ first_call = NoneV
  /\ dynamic_obstacles = {}

(* AStar.__init__(width, height, obstacles): only in-bounds cells are marked *)
InitAStar ==
  \E w \in 1 .. MaxW, h \in 1 .. MaxH :
    \E obs \in ObstacleLists(w, h) :
      Constructed("AStar", w, h, obs \cap Cells(w, h))

NextAStar ==
  \/ \E c \in InputCells(width, height), b \in BOOLEAN :
       /\ set_obstacle(c[1], c[2], b)
       /\ Cardinality(obstacles') <= MaxObstacles
  \/ \E s \in InputCells(width, height), g \in InputCells(width, height) :
       AStar_find_path(s, g)
  \/ AStar_step
  \/ AStar_exhausted

SpecAStar == InitAStar /\ [][NextAStar]_vars

(* several find_path calls, one after the other, on one instance whose     *)
(* obstacles stay as constructed; the endpoints are the first cell of the  *)
(* grid, the last one and a cell outside                                   *)
CallCells(w, h) == {<<0, 0>>, <<w - 1, h - 1>>, <<-1, 0>>}

NextAStarCalls ==
  \/ \E s \in CallCells(width, height), g \in CallCells(width, height) :
       AStar_find_path(s, g)
  \/ AStar_step
  \/ AStar_exhausted
  \/ AStar_return

(* A 6 x 4 grid whose obstacles are drawn from column 4 and one cell of    *)
(* column 1: with the lower three cells of column 4 and the cell of column *)
(* 1 blocked, a node is reached first by a longer route and later by a     *)
(* shorter one while it waits in the heap; with all of column 4 blocked    *)
(* the two sides are disconnected.                                         *)
WallW == 6
WallH == 4
WallCells == {<<1, 2>>, <<4, 0>>, <<4, 1>>, <<4, 2>>, <<4, 3>>}

InitAStarWall ==
  \E obs \in SUBSET WallCells : Constructed("AStar", WallW, WallH, obs)

WallStarts == {c \in Cells(WallW, WallH) : c[1] = 0}

NextAStarWall ==
  \/ \E c \in WallCells, b \in BOOLEAN : set_obstacle(c[1], c[2], b)
  \/ \E s \in WallStarts, g \in InputCells(width, height) :
       AStar_find_path(s, g)
  \/ AStar_step
  \/ AStar_exhausted

SpecAStarWall == InitAStarWall /\ [][NextAStarWall]_vars

(* ---------------- AStarOptimized and astar_simple (astar_optimized.py) ---------------- *)
(* dict[k] = v *)
DictSet(d, k, v) == (k :> v) @@ d

(* AStarOptimized.is_valid_position *)
is_valid_position(x, y, w, h, obs) == InBounds(x, y, w, h) /\ <<x, y>> \notin obs

(* AStarOptimized.get_neighbors, and the inline neighbour test of          *)
(* astar_simple (its `neighbor not in closed` part is in Opt_relax)        *)
Opt_get_neighbors(pos, w, h, obs) ==
  LET cand == [i \in 1 .. Len(directions) |->
                 <<pos[1] + directions[i][1], pos[2] + directions[i][2]>>]
      Keep(c) == is_valid_position(c[1], c[2], w, h, obs)
  IN SelectSeq(cand, Keep)

(* the entry pushed for a cell: (f_cost, h_cost, x, y) in AStarOptimized,  *)
(* (f, (x, y)) in astar_simple                                             *)
HeapEntry(kind, f, h, pos) ==
  IF kind = "fhxy" THEN <<f, h, pos[1], pos[2]>> ELSE <<f, pos>>

EntryPos(kind, e) == IF kind = "fhxy" THEN <<e[3], e[4]>> ELSE e[2]

(* `if neighbor not in g_costs or tentative_g < g_costs[neighbor]` *)
Opt_better(gc, neighbor, tentative_g) ==
  neighbor \notin DOMAIN gc \/ tentative_g < gc[neighbor]

(* the neighbour loop of AStarOptimized.find_path and of astar_simple *)
RECURSIVE Opt_relax(_, _, _, _, _, _, _)
Opt_relax(st, current, g, closed, nbrs, i, kind) ==
  IF i > Len(nbrs) THEN st
  ELSE LET neighbor == nbrs[i]
           tentative_g == st.g[current] + 1
       IN IF neighbor \in closed
          THEN Opt_relax(st, current, g, closed, nbrs, i + 1, kind)
          ELSE IF Opt_better(st.g, neighbor, tentative_g)
          THEN LET goal_h == manhattan_distance(neighbor, g)
                   st2 == [g |-> DictSet(st.g, neighbor, tentative_g),
                           parents |-> DictSet(st.parents, neighbor, current),
                           heap |-> heappush(st.heap,
                                             HeapEntry(kind, tentative_g + goal_h, goal_h, neighbor),
                                             kind, <<>>),
                           pushes |-> st.pushes + 1,
                           writes |-> st.writes + 1]
               IN Opt_relax(st2, current, g, closed, nbrs, i + 1, kind)
          ELSE Opt_relax(st, current, g, closed, nbrs, i + 1, kind)

(* AStarOptimized._reconstruct_path and the inline loop of astar_simple:   *)
(* `while current != start: path.append(current); current = parents[current]` *)
RECURSIVE Opt_walk(_, _, _, _, _)
Opt_walk(par, s, current, path, fuel) ==
  IF current = s THEN PathResult(Reverse(Append(path, s)))
  ELSE IF current \notin DOMAIN par THEN KeyError
  ELSE IF fuel = 0 THEN NoReturn
  ELSE Opt_walk(par, s, par[current], Append(path, current), fuel - 1)

Opt_reconstruct_path(par, s, g) == Opt_walk(par, s, g, <<>>, Cardinality(DOMAIN par) + 1)

(* the validation naming the start in both messages *)
Opt_CheckEndpoints_startTwice(s, g, w, h, obs) ==
  IF ~is_valid_position(s[1], s[2], w, h, obs)
  THEN ValueError("start", "invalid_out_of_bounds_or_obstacle", s)
  ELSE IF ~is_valid_position(g[1], g[2], w, h, obs)
  THEN ValueError("start", "invalid_out_of_bounds_or_obstacle", g)
  ELSE Pending

(* the validation at the head of AStarOptimized.find_path: one message for *)
(* both causes                                                             *)
Opt_CheckEndpoints(s, g, w, h, obs) ==
  IF ~is_valid_position(s[1], s[2], w, h, obs)
  THEN ValueError("start", "invalid_out_of_bounds_or_obstacle", s)
  ELSE IF ~is_valid_position(g[1], g[2], w, h, obs)
  THEN ValueError("goal", "invalid_out_of_bounds_or_obstacle", g)
  ELSE Pending

(* what follows the validation in both functions: the start = goal         *)
(* shortcut, then g_costs, parents, open_heap and closed set as literals   *)
TupleEnter(s, g, kind) ==
  IF SameCell(s, g)
  THEN /\ result' = PathResult(<<s>>) /\ pc' = "done"
       /\ pushes' = 0 /\ writes' = 0
       /\ UNCHANGED <<optVars, closed_set>>
  ELSE /\ g_costs' = DictSet(<<>>, s, 0)
       /\ parents' = <<>>
       /\ open_heap' = << HeapEntry(kind, manhattan_distance(s, g), 0, s) >>
       /\ closed_set' = {}
       /\ pushes' = 1 /\ writes' = 1
       /\ result' = Pending /\ pc' = "search"

(* AStarOptimized.find_path(start, goal) up to the first test of `while open_heap` *)
Opt_find_path(s, g) ==
  /\ engine = "AStarOptimized" /\ pc = "idle"
  /\ start' = s /\ goal' = g
  /\ pops' = 0
  /\ LET err == Opt_CheckEndpoints(s, g, width, height, obstacles)
     IN IF err # Pending
        THEN /\ result' = err /\ pc' = "done"
             /\ pushes' = 0 /\ writes' = 0
             /\ UNCHANGED <<optVars, closed_set>>
        ELSE TupleEnter(s, g, "fhxy")
  /\ UNCHANGED <<instVars, histVars, dynamic_obstacles, obstacles, astarVars, open_set, dynVars, driverVars>>

(* astar_simple(width, height, start, goal, obstacles): no validation *)
astar_simple(s, g) ==
  /\ engine = "astar_simple" /\ pc = "idle"
  /\ start' = s /\ goal' = g
  /\ pops' = 0
  /\ TupleEnter(s, g, "fpos")
  /\ UNCHANGED <<instVars, histVars, dynamic_obstacles, obstacles, astarVars, open_set, dynVars, driverVars>>

(* one iteration of `while open_heap:` *)
TupleStep(kind) ==
  /\ pc = "search" /\ open_heap # <<>>
  /\ LET popped == heappop(open_heap, kind, <<>>)
         current == EntryPos(kind, popped.item)
     IN /\ pops' = pops + 1
        /\ IF current \in closed_set
           THEN /\ open_heap' = popped.heap
                /\ UNCHANGED <<g_costs, parents, closed_set, result, pc, pushes, writes>>
           ELSE IF current = goal
           THEN /\ result' = Opt_reconstruct_path(parents, start, goal)
                /\ pc' = "done"
                /\ open_heap' = popped.heap
                /\ UNCHANGED <<g_costs, parents, closed_set, pushes, writes>>
           ELSE LET closed2 == closed_set \cup {current}
                    st == Opt_relax([g |-> g_costs, parents |-> parents,
                                     heap |-> popped.heap,
                                     pushes |-> pushes, writes |-> writes],
                                    current, goal, closed2,
                                    Opt_get_neighbors(current, width, height, obstacles),
                                    1, kind)
                IN /\ closed_set' = closed2
                   /\ g_costs' = st.g /\ parents' = st.parents /\ open_heap' = st.heap
                   /\ pushes' = st.pushes /\ writes' = st.writes
                   /\ UNCHANGED <<result, pc>>
  /\ UNCHANGED <<instVars, histVars, dynamic_obstacles, obstacles, start, goal, astarVars, open_set, dynVars, driverVars>>

Opt_step == engine = "AStarOptimized" /\ TupleStep("fhxy")

simple_step == engine = "astar_simple" /\ TupleStep("fpos")

(* `while open_heap:` is false: `return None` *)
TupleExhausted ==
  /\ pc = "search" /\ open_heap = <<>>
  /\ result' = NoneResult /\ pc' = "done"
  /\ UNCHANGED <<instVars, histVars, dynamic_obstacles, obstacles, start, goal, astarVars, open_set, closed_set,
                 optVars, dynVars, driverVars, pushes, pops, writes>>

Opt_exhausted == engine = "AStarOptimized" /\ TupleExhausted

simple_exhausted == engine = "astar_simple" /\ TupleExhausted

(* return from AStarOptimized.find_path: g_costs, parents, open_heap and   *)
(* closed_set are locals of the call                                       *)
Opt_return ==
  /\ engine = "AStarOptimized" /\ Returned
  /\ g_costs' = <<>> /\ parents' = <<>> /\ open_heap' = <<>> /\ closed_set' = {}
  /\ UNCHANGED <<instVars, dynamic_obstacles, obstacles, start, goal, result,
                 astarVars, open_set, dynVars, driverVars, pushes, pops, writes>>

(* AStarOptimized.__init__ keeps the obstacle list as given (frozenset) *)
InitOpt ==
  \E w \in 1 .. MaxW, h \in 1 .. MaxH :
    \E obs \in ObstacleLists(w, h) : Constructed("AStarOptimized", w, h, obs)

(* astar_simple receives width, height and obstacles as arguments *)
InitSimple ==
  \E w \in 1 .. MaxW, h \in 1 .. MaxH :
    \E obs \in ObstacleLists(w, h) : Constructed("astar_simple", w, h, obs)

NextOpt ==
  \/ \E s \in InputCells(width, height), g \in InputCells(width, height) :
       Opt_find_path(s, g)
  \/ Opt_step
  \/ Opt_exhausted

(* astar_simple is documented to assume valid inputs: its callers pass     *)
(* in-bounds cells that are not obstacles                                  *)
NextOptCalls ==
  \/ \E s \in CallCells(width, height), g \in CallCells(width, height) :
       Opt_find_path(s, g)
  \/ Opt_step
  \/ Opt_exhausted
  \/ Opt_return

NextSimple ==
  \/ \E s \in Cells(width, height) \ obstacles, g \in Cells(width, height) \ obstacles :
       astar_simple(s, g)
  \/ simple_step
  \/ simple_exhausted

SpecOpt == (InitOpt \/ InitSimple) /\ [][NextOpt \/ NextSimple]_vars

(* both functions on the 6 x 4 grid with the wall of column 4 *)
InitOptWall ==
  \E obs \in SUBSET WallCells, eng \in {"AStarOptimized", "astar_simple"} :
    Constructed(eng, WallW, WallH, obs)

(* goals beyond the wall, in the last column *)
WallGoals == {c \in Cells(WallW, WallH) : c[1] = WallW - 1}

NextOptWall ==
  \/ \E s \in WallStarts, g \in WallGoals : Opt_find_path(s, g)
  \/ Opt_step
  \/ Opt_exhausted
  \/ \E s \in WallStarts, g \in WallGoals : astar_simple(s, g)
  \/ simple_step
  \/ simple_exhausted

SpecOptWall == InitOptWall /\ [][NextOptWall]_vars

(* ---------------- DynamicAStar (astar_dynamic.py) ---------------- *)
(* DynamicAStar.add_obstacle(x, y) *)
add_obstacle(x, y) ==
  /\ engine = "DynamicAStar" /\ pc = "idle" /\ dpc = "off"
  /\ obstacles' = IF InBounds(x, y, width, height) THEN obstacles \cup {<<x, y>>}
                  ELSE obstacles
  /\ UNCHANGED <<instVars, histVars, dynamic_obstacles, pc, start, goal, result, astarVars, open_set,
                 closed_set, optVars, dynVars, driverVars, pushes, pops, writes>>

(* DynamicAStar.remove_obstacle(x, y) *)
remove_obstacle(x, y) ==
  /\ engine = "DynamicAStar" /\ pc = "idle" /\ dpc = "off"
  /\ obstacles' = obstacles \ {<<x, y>>}
  /\ UNCHANGED <<instVars, histVars, dynamic_obstacles, pc, start, goal, result, astarVars, open_set,
                 closed_set, optVars, dynVars, driverVars, pushes, pops, writes>>

(* DynamicAStar.clear_obstacles() *)
clear_obstacles ==
  /\ engine = "DynamicAStar" /\ pc = "idle" /\ dpc = "off"
  /\ obstacles' = {}
  /\ UNCHANGED <<instVars, histVars, dynamic_obstacles, pc, start, goal, result, astarVars, open_set,
                 closed_set, optVars, dynVars, driverVars, pushes, pops, writes>>

(* update_obstacles adding to the old set instead of replacing it *)
Installed_kept(old, new_obstacles, w, h) == old \cup (new_obstacles \cap Cells(w, h))

(* the set DynamicAStar.update_obstacles(new_obstacles) leaves in          *)
(* self.obstacles: a fresh set holding the in-bounds cells of the list     *)
Installed(old, new_obstacles, w, h) == new_obstacles \cap Cells(w, h)

(* DynamicAStar.update_obstacles(new_obstacles) *)
update_obstacles(new_obstacles) ==
  /\ engine = "DynamicAStar" /\ pc = "idle" /\ dpc = "off"
  /\ obstacles' = Installed(obstacles, new_obstacles, width, height)
  /\ UNCHANGED <<instVars, histVars, dynamic_obstacles, pc, start, goal, result, astarVars, open_set,
                 closed_set, optVars, dynVars, driverVars, pushes, pops, writes>>

(* DynamicAStar.get_neighbors.  Its first statement builds the list        *)
(* `directions`, whose second pair is written (1, <name>) with a name that *)
(* is bound nowhere (no local, no module global, no builtin): evaluating   *)
(* the list raises NameError before any neighbour is produced.  `raised`   *)
(* says so; `cells` is the list the loop below it would return.            *)
Dyn_get_neighbors(pos, w, h, obs) == [raised |-> TRUE, cells |-> <<>>]

(* `if neighbor not in g_score or tentative_g_score < g_score[neighbor]` *)
Dyn_better(gs, neighbor, tentative_g_score) ==
  neighbor \notin DOMAIN gs \/ tentative_g_score < gs[neighbor]

(* the neighbour loop of DynamicAStar.find_path (no closed set) *)
RECURSIVE Dyn_relax(_, _, _, _, _)
Dyn_relax(st, current, g, nbrs, i) ==
  IF i > Len(nbrs) THEN st
  ELSE LET neighbor == nbrs[i]
           tentative_g_score == st.g[current] + 1
       IN IF Dyn_better(st.g, neighbor, tentative_g_score)
          THEN LET fn == tentative_g_score + manhattan_distance(neighbor, g)
                   st2 == [g |-> DictSet(st.g, neighbor, tentative_g_score),
                           f |-> DictSet(st.f, neighbor, fn),
                           came_from |-> DictSet(st.came_from, neighbor, current),
                           heap |-> heappush(st.heap, <<fn, neighbor>>, "fpos", <<>>),
                           pushes |-> st.pushes + 1,
                           writes |-> st.writes + 1]
               IN Dyn_relax(st2, current, g, nbrs, i + 1)
          ELSE Dyn_relax(st, current, g, nbrs, i + 1)

(* DynamicAStar._reconstruct_path: `while current in came_from` *)
RECURSIVE Dyn_walk(_, _, _, _)
Dyn_walk(cf, current, path, fuel) ==
  IF current \notin DOMAIN cf THEN PathResult(Reverse(path))
  ELSE IF fuel = 0 THEN NoReturn
  ELSE Dyn_walk(cf, cf[current], Append(path, cf[current]), fuel - 1)

Dyn_reconstruct_path(cf, current) ==
  Dyn_walk(cf, current, <<current>>, Cardinality(DOMAIN cf) + 1)

(* DynamicAStar.find_path(s, g) against the obstacle set obs, up to the    *)
(* first test of `while open_set`                                          *)
Dyn_enter(s, g, obs) ==
  /\ start' = s /\ goal' = g
  /\ pops' = 0
  /\ LET err == CheckEndpoints(s, g, width, height, obs)
     IN IF err # Pending
        THEN /\ result' = err /\ pc' = "done"
             /\ pushes' = 0 /\ writes' = 0
             /\ UNCHANGED <<dynVars, open_set>>
        ELSE IF SameCell(s, g)
        THEN /\ result' = PathResult(<<s>>) /\ pc' = "done"
             /\ pushes' = 0 /\ writes' = 0
             /\ UNCHANGED <<dynVars, open_set>>
        ELSE LET h0 == manhattan_distance(s, g)
             IN /\ g_score' = DictSet(<<>>, s, 0)
                /\ f_score' = DictSet(<<>>, s, h0)
                /\ open_set' = heappush(<<>>, <<h0, s>>, "fpos", <<>>)
                /\ came_from' = <<>>
                /\ pushes' = 1 /\ writes' = 1
                /\ result' = Pending /\ pc' = "search"

(* a direct call of DynamicAStar.find_path *)
Dyn_find_path(s, g) ==
  /\ engine = "DynamicAStar" /\ pc = "idle" /\ dpc = "off"
  /\ Dyn_enter(s, g, obstacles)
  /\ UNCHANGED <<instVars, histVars, dynamic_obstacles, obstacles, astarVars, closed_set, optVars, driverVars>>

(* one test of `while open_set:` in DynamicAStar.find_path and, when the   *)
(* list is not empty, the iteration that follows                           *)
Dyn_step ==
  /\ engine = "DynamicAStar" /\ pc = "search"
  /\ IF open_set = <<>>
     THEN /\ result' = NoneResult /\ pc' = "done"
          /\ UNCHANGED <<dynVars, open_set, pushes, pops, writes>>
     ELSE LET popped == heappop(open_set, "fpos", <<>>)
              current == popped.item[2]
              nb == Dyn_get_neighbors(current, width, height, obstacles)
          IN /\ pops' = pops + 1
             /\ IF current = goal
                THEN /\ result' = Dyn_reconstruct_path(came_from, current)
                     /\ pc' = "done"
                     /\ open_set' = popped.heap
                     /\ UNCHANGED <<dynVars, pushes, writes>>
                ELSE IF nb.raised
                THEN /\ result' = NameError /\ pc' = "done"
                     /\ open_set' = popped.heap
                     /\ UNCHANGED <<dynVars, pushes, writes>>
                ELSE LET st == Dyn_relax([g |-> g_score, f |-> f_score,
                                          came_from |-> came_from, heap |-> popped.heap,
                                          pushes |-> pushes, writes |-> writes],
                                         current, goal, nb.cells, 1)
                     IN /\ g_score' = st.g /\ f_score' = st.f
                        /\ came_from' = st.came_from /\ open_set' = st.heap
                        /\ pushes' = st.pushes /\ writes' = st.writes
                        /\ UNCHANGED <<result, pc>>
  /\ UNCHANGED <<instVars, histVars, dynamic_obstacles, obstacles, start, goal, astarVars, closed_set, optVars,
                 driverVars>>

(* return from DynamicAStar.find_path: open_set, g_score, f_score and      *)
(* came_from are locals of the call                                        *)
Dyn_return ==
  /\ engine = "DynamicAStar" /\ Returned
  /\ g_score' = <<>> /\ f_score' = <<>> /\ came_from' = <<>> /\ open_set' = <<>>
  /\ UNCHANGED <<instVars, dynamic_obstacles, obstacles, start, goal, result,
                 astarVars, closed_set, optVars, driverVars, pushes, pops, writes>>

(* DynamicAStar.__init__(width, height): no obstacles *)
InitDyn ==
  \E w \in 1 .. MaxW, h \in 1 .. MaxH : Constructed("DynamicAStar", w, h, {})

NextDyn ==
  \/ \E c \in InputCells(width, height) :
       add_obstacle(c[1], c[2]) /\ Cardinality(obstacles') <= MaxObstacles
  \/ \E c \in InputCells(width, height) : remove_obstacle(c[1], c[2])
  \/ clear_obstacles
  \/ \E l \in ObstacleLists(width, height) : update_obstacles(l)
  \/ \E s \in InputCells(width, height), g \in InputCells(width, height) :
       Dyn_find_path(s, g)
  \/ Dyn_step

SpecDyn == InitDyn /\ [][NextDyn]_vars

NextDynCalls ==
  \/ \E s \in CallCells(width, height), g \in CallCells(width, height) :
       Dyn_find_path(s, g)
  \/ Dyn_step
  \/ Dyn_return

(* ---------------- find_path_with_dynamic_updates (astar_dynamic.py) ---------------- *)
(* the lists an obstacle callback returns *)
CallbackLists(w, h) == SubsetsUpTo(InputCells(w, h), MaxPulled)

(* `range(max_replans + 1)` *)
AttemptRange(mr) == 0 .. mr

(* `if path:` : a list is true when it is not empty, None is false *)
Truthy(r) == r.kind = "path" /\ r.path # <<>>

(* the last-attempt test one attempt early *)
LastAttempt_early(at, mr) == at + 1 = mr

(* `if attempt == max_replans: return None` *)
LastAttempt(at, mr) == at = mr

(* exceptions `except ValueError` does not catch leave the driver *)
Escapes(r) == r.kind \in {"NameError", "KeyError", "NoReturn"}

(* the call itself: current_start = start, then the first test of the      *)
(* for loop; an empty range falls through to the final `return None`       *)
find_path_with_dynamic_updates(s, g, cb, mr) ==
  /\ engine = "DynamicAStar" /\ pc = "idle" /\ dpc = "off"
  /\ current_start' = s /\ dgoal' = g
  /\ obstacle_callback' = cb /\ max_replans' = mr
  /\ attempt' = 0 /\ pulls' = 0 /\ searches' = 0 /\ successes' = 0
  /\ IF AttemptRange(mr) = {}
     THEN dresult' = NoneResult /\ dpc' = "ret"
     ELSE dresult' = Pending /\ dpc' = "loop"
  /\ UNCHANGED <<instVars, histVars, dynamic_obstacles, obstacles, pc, start, goal, result, astarVars, open_set,
                 closed_set, optVars, dynVars, last_pulled, pushes, pops, writes>>

(* the head of one attempt: pull the obstacle list when a callback was     *)
(* given, install it, and enter self.find_path(current_start, goal)        *)
Driver_attempt ==
  /\ engine = "DynamicAStar" /\ dpc = "loop" /\ pc = "idle"
  /\ \E l \in (IF obstacle_callback THEN CallbackLists(width, height) ELSE {last_pulled}) :
       LET obs2 == IF obstacle_callback
                   THEN Installed(obstacles, l, width, height)
                   ELSE obstacles
       IN /\ obstacles' = obs2
          /\ last_pulled' = l
          /\ pulls' = pulls + (IF obstacle_callback THEN 1 ELSE 0)
          /\ Dyn_enter(current_start, dgoal, obs2)
  /\ searches' = searches + 1
  /\ dpc' = "call"
  /\ UNCHANGED <<instVars, histVars, dynamic_obstacles, astarVars, closed_set, optVars, current_start, dgoal,
                 attempt, max_replans, obstacle_callback, dresult, successes>>

(* what the driver does with the outcome of the attempt's find_path *)
Driver_after ==
  /\ engine = "DynamicAStar" /\ dpc = "call" /\ pc = "done"
  /\ successes' = successes + (IF result.kind = "path" THEN 1 ELSE 0)
  /\ IF Truthy(result)
     THEN /\ dresult' = result /\ dpc' = "ret"
          /\ UNCHANGED <<attempt, pc>>
     ELSE IF Escapes(result)
     THEN /\ dresult' = result /\ dpc' = "ret"
          /\ UNCHANGED <<attempt, pc>>
     ELSE IF LastAttempt(attempt, max_replans)
     THEN /\ dresult' = NoneResult /\ dpc' = "ret"
          /\ UNCHANGED <<attempt, pc>>
     ELSE IF attempt + 1 \in AttemptRange(max_replans)
     THEN /\ attempt' = attempt + 1 /\ dpc' = "loop" /\ pc' = "idle"
          /\ UNCHANGED dresult
     ELSE /\ dresult' = NoneResult /\ dpc' = "ret"
          /\ UNCHANGED <<attempt, pc>>
  /\ UNCHANGED <<instVars, histVars, dynamic_obstacles, obstacles, start, goal, result, astarVars, open_set,
                 closed_set, optVars, dynVars, current_start, dgoal, max_replans,
                 obstacle_callback, pulls, searches, last_pulled, pushes, pops, writes>>

(* the endpoints the driver is called with: the first cell of the grid,    *)
(* the last one, and a cell outside                                        *)
DriverCells(w, h) == {<<0, 0>>, <<w - 1, h - 1>>, <<-1, 0>>}

NextDriver ==
  \/ \E l \in CallbackLists(width, height) : update_obstacles(l)
  \/ \E s \in DriverCells(width, height), g \in DriverCells(width, height),
        cb \in BOOLEAN, mr \in -1 .. MaxReplans :
       find_path_with_dynamic_updates(s, g, cb, mr)
  \/ Driver_attempt
  \/ Dyn_step
  \/ Driver_after

SpecDriver == InitDyn /\ [][NextDriver]_vars

(* ---------------- find_path_with_dynamic_obstacles (astar_dynamic.py) ---------------- *)
(* the parameters of the function *)
Parameters == {"width", "height", "start", "goal", "obstacles"}

(* binding the arguments of a call to the parameters: a keyword that is no *)
(* parameter raises TypeError before the body runs                         *)
Binds(keywords) == keywords \subseteq Parameters

(* the keywords callers pass the obstacles under: `obstacles` alone, or    *)
(* `static_obstacles` and `dynamic_obstacles` as test_dynamic_obstacle.py  *)
(* does                                                                    *)
CallKeywords == { {"obstacles"}, {"static_obstacles", "dynamic_obstacles"} }

(* the schedules callers hold: at most one cell at one step *)
Schedules(w, h) == SubsetsUpTo((0 .. MaxStep) \X Cells(w, h), 1)

(* find_path_with_dynamic_obstacles(width, height, start, goal, ...): a    *)
(* new DynamicAStar(width, height), update_obstacles(obstacles) when the   *)
(* list is not empty, then find_path(start, goal)                          *)
find_path_with_dynamic_obstacles(s, g, static, dyn, keywords) ==
  /\ engine = "DynamicAStar" /\ pc = "idle" /\ dpc = "off"
  /\ calls = 0 /\ obstacles = {}
  /\ dynamic_obstacles' = dyn
  /\ IF ~Binds(keywords)
     THEN /\ result' = TypeError /\ pc' = "done"
          /\ start' = s /\ goal' = g
          /\ pushes' = 0 /\ pops' = 0 /\ writes' = 0
          /\ UNCHANGED <<obstacles, dynVars, open_set>>
     ELSE LET obs2 == IF static # {}
                      THEN Installed(obstacles, static, width, height)
                      ELSE obstacles
          IN /\ obstacles' = obs2
             /\ Dyn_enter(s, g, obs2)
  /\ UNCHANGED <<instVars, histVars, astarVars, closed_set, optVars, driverVars>>

NextConvenience ==
  \/ \E s \in CallCells(width, height), g \in CallCells(width, height),
        static \in ObstacleLists(width, height), dyn \in Schedules(width, height),
        keywords \in CallKeywords :
       /\ keywords = {"obstacles"} => dyn = {}
       /\ find_path_with_dynamic_obstacles(s, g, static, dyn, keywords)
  \/ Dyn_step

SpecConvenience == InitDyn /\ [][NextConvenience]_vars

(* ---------------- the three planner classes side by side ---------------- *)
SpecEngines ==
  (InitAStar \/ InitOpt \/ InitDyn) /\ [][NextAStar \/ NextOpt \/ NextDyn]_vars

(* several find_path calls, one after the other, on one instance *)
SpecCalls ==
  (InitAStar \/ InitOpt \/ InitDyn)
    /\ [][NextAStarCalls \/ NextOptCalls \/ NextDynCalls]_vars

(* find_path is synchronous: once entered, its loop is run until the call  *)
(* returns or raises                                                       *)
SearchStep ==
  AStar_step \/ AStar_exhausted \/ Opt_step \/ Opt_exhausted \/ Dyn_step

(* weak fairness of the loop, WF_vars(SearchStep), written out: a step of  *)
(* the loop is possible exactly when pc = "search" (the loop test is       *)
(* either true, and the iteration runs, or false, and the call returns),   *)
(* so ENABLED <<SearchStep>>_vars is pc = "search"                         *)
LoopFairness == []<>(pc # "search") \/ []<><<SearchStep>>_vars

(* single find_path calls of the three classes that start in the first     *)
(* column of the grid or outside it and lead to any cell                   *)
SearchStarts(w, h) == {c \in InputCells(w, h) : c[1] <= 0}

NextSearch ==
  \/ \E s \in SearchStarts(width, height), g \in InputCells(width, height) :
       AStar_find_path(s, g)
  \/ AStar_step
  \/ AStar_exhausted
  \/ \E s \in SearchStarts(width, height), g \in InputCells(width, height) :
       Opt_find_path(s, g)
  \/ Opt_step
  \/ Opt_exhausted
  \/ \E l \in ObstacleLists(width, height) : update_obstacles(l)
  \/ \E s \in SearchStarts(width, height), g \in InputCells(width, height) :
       Dyn_find_path(s, g)
  \/ Dyn_step

SpecSearch == (InitAStar \/ InitOpt \/ InitDyn) /\ [][NextSearch]_vars

SpecSearchFair == SpecSearch /\ LoopFairness

(* AStar and AStarOptimized *)
SpecStatic == (InitAStar \/ InitOpt) /\ [][NextAStar \/ NextOpt]_vars

(* ---------------- reference notions used by the properties ---------------- *)
Adjacent(a, b) ==
  \/ a[1] = b[1] /\ (a[2] = b[2] + 1 \/ b[2] = a[2] + 1)
  \/ a[2] = b[2] /\ (a[1] = b[1] + 1 \/ b[1] = a[1] + 1)

FreeCells == Cells(width, height) \ obstacles

(* breadth-first flood from `frontier`: the number of steps after which g  *)
(* is reached, or -1 when it never is                                      *)
RECURSIVE Flood(_, _, _, _, _)
Flood(free, seen, frontier, g, d) ==
  IF g \in frontier THEN d
  ELSE IF frontier = {} THEN -1
  ELSE LET seen2 == seen \cup frontier
           next == {c \in free \ seen2 : \E f \in frontier : Adjacent(c, f)}
       IN Flood(free, seen2, next, g, d + 1)

ShortestDist(free, s, g) == Flood(free, {}, {s}, g, 0)

ValidPath(p, s, g, free) ==
  /\ p # <<>>
  /\ p[1] = s /\ p[Len(p)] = g
  /\ \A i \in 1 .. Len(p) : p[i] \in free
  /\ \A i \in 1 .. Len(p) - 1 : Adjacent(p[i], p[i + 1])

ValidEndpoints == start \in FreeCells /\ goal \in FreeCells

(* the result is a path of d + 1 cells when the breadth-first distance is  *)
(* d, and None when the goal cannot be reached                             *)
ShortestOrNone ==
  LET d == ShortestDist(FreeCells, start, goal)
  IN IF d = -1 THEN result = NoneResult
     ELSE result.kind = "path" /\ Len(result.path) = d + 1

(* ---------------- properties ---------------- *)
(* C1: for in-bounds, unblocked start and goal, AStarOptimized.find_path   *)
(* and astar_simple return a path of d + 1 cells, d the breadth-first      *)
(* distance, and return None (no exception) exactly when there is no route. *)
C1_OptimizedShortest ==
  (engine \in {"AStarOptimized", "astar_simple"} /\ pc = "done" /\ ValidEndpoints)
    => ShortestOrNone

C1_Witness ==
  /\ engine = "astar_simple" /\ pc = "done" /\ ValidEndpoints
  /\ result.kind = "path"
  /\ Len(result.path) > Abs(start[1] - goal[1]) + Abs(start[2] - goal[2]) + 1

(* C2: for in-bounds, unblocked start and goal, AStar.find_path returns a  *)
(* path of d + 1 cells, d the breadth-first distance, and None exactly     *)
(* when the goal is unreachable.                                           *)
C2_AStarShortest ==
  (engine = "AStar" /\ pc = "done" /\ ValidEndpoints) => ShortestOrNone

(* C3: after any sequence of obstacle updates, DynamicAStar.find_path with *)
(* in-bounds, unblocked endpoints returns a shortest path for the current  *)
(* obstacle set or None when unreachable, and nothing else (no exception). *)
C3_DynamicShortest ==
  (engine = "DynamicAStar" /\ pc = "done" /\ ValidEndpoints) => ShortestOrNone

(* C4: every path AStar.find_path or AStarOptimized.find_path returns runs *)
(* from start to goal in unit axis steps through in-bounds cells that are  *)
(* not obstacles; a call ends with such a path, None or the input error,   *)
(* never with a partial path.                                              *)
C4_PathWellFormed ==
  (engine \in {"AStar", "AStarOptimized"} /\ pc = "done")
    => /\ result.kind \in {"path", "None", "ValueError"}
       /\ result.kind = "path" => ValidPath(result.path, start, goal, FreeCells)

C4_Witness ==
  /\ engine = "AStar" /\ pc = "done" /\ result.kind = "path"
  /\ obstacles # {}
  /\ Len(result.path) > Abs(start[1] - goal[1]) + Abs(start[2] - goal[2]) + 1

(* C5: find_path(p, p) for an in-bounds, unobstructed p returns [p] in     *)
(* AStar, AStarOptimized and DynamicAStar, and nothing is pushed, popped   *)
(* or written: the search containers and the node fields are as before.    *)
C5_SameCellNoSearch ==
  (engine \in {"AStar", "AStarOptimized", "DynamicAStar"}
     /\ pc = "done" /\ start = goal /\ start \in FreeCells)
    => /\ result = PathResult(<<start>>)
       /\ pushes = 0 /\ pops = 0 /\ writes = 0
       /\ open_set = <<>> /\ open_heap = <<>> /\ closed_set = {}
       /\ g_costs = <<>> /\ g_score = <<>>
       /\ \A c \in DOMAIN g_cost : g_cost[c] = Inf /\ parent[c] = NoneV

C5_Witness ==
  /\ engine = "AStar" /\ pc = "done" /\ start = goal /\ start \in FreeCells
  /\ obstacles # {}
  /\ result.kind = "path"

(* what is wrong with endpoint e of the call: "out_of_range", "is_obstacle" *)
(* or "" *)
Defect(c) ==
  IF c \notin Cells(width, height) THEN "out_of_range"
  ELSE IF c \in obstacles THEN "is_obstacle"
  ELSE ""

Named(r) == IF r.endpoint = "start" THEN start ELSE goal

(* C6: AStar.find_path and DynamicAStar.find_path answer an out-of-bounds  *)
(* or blocked endpoint with an error before any search step; the error     *)
(* names an endpoint that has the reported defect (an out-of-bounds        *)
(* endpoint whenever there is one), with its coordinate when out of        *)
(* bounds; neither a path nor None is returned.                            *)
C6_InvalidEndpointRejected ==
  (engine \in {"AStar", "DynamicAStar"} /\ pc = "done" /\ ~ValidEndpoints)
    => /\ result.kind = "ValueError"
       /\ result.endpoint \in {"start", "goal"}
       /\ result.text = Defect(Named(result))
       /\ result.text = "out_of_range" => result.at = Named(result)
       /\ ("out_of_range" \in {Defect(start), Defect(goal)}) => result.text = "out_of_range"
       /\ pushes = 0 /\ pops = 0 /\ writes = 0

C6_Witness ==
  /\ engine = "DynamicAStar" /\ pc = "done"
  /\ Defect(start) = "" /\ Defect(goal) = "is_obstacle"
  /\ result = ValueError("goal", "is_obstacle", <<>>)

(* C7 as stated: in AStar, DynamicAStar and AStarOptimized the error tells *)
(* which precondition failed: its text is the defect of the endpoint it    *)
(* names.                                                                  *)
C7_ErrorsDistinct ==
  (engine \in {"AStar", "DynamicAStar", "AStarOptimized"}
     /\ pc = "done" /\ result.kind = "ValueError")
    => /\ result.text \in {"out_of_range", "is_obstacle"}
       /\ result.text = Defect(Named(result))

(* C7 amended: in AStar and DynamicAStar the error's text is the defect of *)
(* the endpoint it names; AStarOptimized reports one and the same text for *)
(* both defects, naming an endpoint that has one of them.                  *)
C7_ErrorsDistinctExceptOptimized ==
  (pc = "done" /\ result.kind = "ValueError")
    => /\ engine \in {"AStar", "DynamicAStar"}
            => /\ result.text \in {"out_of_range", "is_obstacle"}
               /\ result.text = Defect(Named(result))
       /\ engine = "AStarOptimized"
            => /\ result.text = "invalid_out_of_bounds_or_obstacle"
               /\ result.endpoint \in {"start", "goal"}
               /\ Defect(Named(result)) # ""
               /\ result.at = Named(result)

C7_Witness ==
  /\ engine = "AStarOptimized" /\ pc = "done" /\ result.kind = "ValueError"
  /\ result.endpoint = "goal" /\ Defect(goal) = "is_obstacle" /\ Defect(start) = ""

(* C8: find_path_with_dynamic_updates never raises: with max_replans >= 0  *)
(* it ends by returning a path or None.                                    *)
C8_DriverNeverRaises ==
  (dpc = "ret" /\ max_replans >= 0) => dresult.kind \in {"path", "None"}

(* C9 as stated: a run with attempt limit n = max_replans makes at most n  *)
(* search attempts and at most n pulls.                                    *)
C9_AtMostNAttempts ==
  (dpc # "off" /\ max_replans >= 0)
    => searches <= max_replans /\ pulls <= max_replans

(* C9 amended: a run with max_replans = n >= 0 makes at most n + 1 search  *)
(* attempts and pulls once per attempt when a callback is given (never     *)
(* otherwise); when it returns None it has made exactly n + 1 attempts.    *)
C9_AtMostNPlusOneAttempts ==
  (dpc # "off" /\ max_replans >= 0)
    => /\ searches <= max_replans + 1
       /\ pulls = (IF obstacle_callback THEN searches ELSE 0)
       /\ (dpc = "ret" /\ dresult = NoneResult) => searches = max_replans + 1

C9_Witness ==
  /\ dpc = "ret" /\ dresult = NoneResult /\ obstacle_callback
  /\ max_replans = 1 /\ searches = 2 /\ pulls = 2

(* C10: the driver returns the path of the first attempt whose search      *)
(* succeeds and nothing is pulled or searched after it; each attempt       *)
(* searches from the same start to the same goal against exactly the       *)
(* in-bounds cells of the list pulled for it, so the returned path avoids  *)
(* every cell of the last pulled list.                                     *)
C10_FirstSuccessReturned ==
  /\ (dpc \in {"call", "ret"} /\ searches > 0)
       => /\ start = current_start /\ goal = dgoal
          /\ obstacle_callback => obstacles = last_pulled \cap Cells(width, height)
  /\ successes > 0
       => /\ successes = 1 /\ dpc = "ret"
          /\ dresult = result /\ result.kind = "path"
          /\ searches = attempt + 1
          /\ pulls = (IF obstacle_callback THEN searches ELSE 0)
  /\ (dpc = "ret" /\ dresult.kind = "path")
       => /\ successes = 1
          /\ dresult.path[1] = current_start
          /\ dresult.path[Len(dresult.path)] = dgoal
          /\ obstacle_callback
               => \A i \in 1 .. Len(dresult.path) : dresult.path[i] \notin last_pulled

C10_Witness ==
  /\ dpc = "ret" /\ dresult.kind = "path" /\ obstacle_callback
  /\ attempt = 1 /\ pulls = 2 /\ last_pulled # {}

(* C11: an out-of-bounds start or goal given to                            *)
(* find_path_with_dynamic_updates reaches the caller as the input error of *)
(* the first attempt: no second attempt is made and the run does not end   *)
(* with None.                                                              *)
C11_OutOfBoundsSurfaced ==
  (dpc # "off" /\ max_replans >= 0
     /\ "out_of_range" \in {Defect(current_start), Defect(dgoal)})
    => /\ searches <= 1
       /\ dpc = "ret" => (dresult.kind = "ValueError" /\ dresult.text = "out_of_range")

(* C12: on one AStar instance with an unchanged obstacle set, a find_path  *)
(* call made after any earlier calls ends as the same call ended when the  *)
(* instance was fresh: the same path, None or error.                       *)
C12_HistoryIndependent ==
  (engine = "AStar" /\ pc = "done" /\ calls > 0
     /\ start = first_call.start /\ goal = first_call.goal)
    => result = first_call.result

C12_Witness ==
  /\ engine = "AStar" /\ pc = "done" /\ calls = 2
  /\ start = first_call.start /\ goal = first_call.goal
  /\ result.kind = "path" /\ Len(result.path) > 2
  /\ \E c \in DOMAIN h_cost : h_cost[c] # 0 /\ h_cost[c] # manhattan_distance(c, goal)

(* C13: find_path_with_dynamic_obstacles, given static obstacles and a     *)
(* schedule of dynamic obstacles, with free in-bounds endpoints, returns   *)
(* None or a path from start to goal whose cell at index t is neither a    *)
(* static obstacle nor scheduled as an obstacle for step t.                *)
C13_TimeIndexedPath ==
  (engine = "DynamicAStar" /\ pc = "done" /\ ValidEndpoints)
    => /\ result.kind \in {"path", "None"}
       /\ result.kind = "path"
            => /\ ValidPath(result.path, start, goal, FreeCells)
               /\ \A t \in 0 .. Len(result.path) - 1 :
                    <<t, result.path[t + 1]>> \notin dynamic_obstacles

(* no cost and no predecessor link is stored in the instance *)
NoSearchState ==
  /\ \A c \in DOMAIN g_cost :
       g_cost[c] = Inf /\ f_cost[c] = Inf /\ h_cost[c] = 0 /\ parent[c] = NoneV
  /\ open_set = <<>> /\ closed_set = {}
  /\ g_costs = <<>> /\ parents = <<>> /\ open_heap = <<>>
  /\ g_score = <<>> /\ f_score = <<>> /\ came_from = <<>>

(* no step of a find_path call, from its entry to its return, changes      *)
(* width, height or the obstacle set                                       *)
CallKeepsGrid ==
  [][(pc # "idle" \/ pc' # "idle") => UNCHANGED <<width, height, obstacles>>]_vars

(* C14 as stated: a find_path call leaves width, height and the obstacle   *)
(* set unchanged, and after it has returned (path, None or error) no       *)
(* search state remains stored in the instance.                            *)
C14_GridAsBefore ==
  /\ CallKeepsGrid
  /\ []((pc = "idle" /\ calls > 0) => NoSearchState)

(* C14 amended: a find_path call leaves width, height and the obstacle set *)
(* unchanged; after it has returned, AStarOptimized and DynamicAStar hold  *)
(* no search state; AStar keeps the node fields as the call left them, and *)
(* its next search starts from g_cost, f_cost and parent reset in every    *)
(* node but the start node.                                                *)
C14_GridAsBeforeExceptNodes ==
  /\ CallKeepsGrid
  /\ []((pc = "idle" /\ calls > 0 /\ engine # "AStar") => NoSearchState)
  /\ [][(engine = "AStar" /\ pc = "done" /\ pc' = "idle")
          => UNCHANGED <<g_cost, h_cost, f_cost, parent>>]_vars
  /\ []((engine = "AStar" /\ pc = "search" /\ pops = 0)
          => /\ g_cost[start] = 0 /\ parent[start] = NoneV
             /\ \A c \in DOMAIN g_cost \ {start} :
                  g_cost[c] = Inf /\ f_cost[c] = Inf /\ parent[c] = NoneV)

C14_Witness ==
  /\ engine = "AStar" /\ pc = "search" /\ pops = 0 /\ calls > 0
  /\ first_call.result.kind = "path" /\ Len(first_call.result.path) > 2
  /\ \E c \in DOMAIN h_cost : h_cost[c] # 0 /\ c # start

(* how many entries of the heap are entries for cell c *)
EntriesFor(heap, kind, c) ==
  Cardinality({i \in 1 .. Len(heap) : EntryPos(kind, heap[i]) = c})

TupleKind == IF engine = "AStarOptimized" THEN "fhxy" ELSE "fpos"

InTupleSearch == engine \in {"AStarOptimized", "astar_simple"} /\ pc = "search"

(* C15: in AStarOptimized.find_path and astar_simple, every cell of the    *)
(* closed set has as its g the breadth-first distance from start; a step   *)
(* of the search leaves a closed cell closed, leaves its g and its         *)
(* predecessor as they are and adds no heap entry for it; and a step that  *)
(* pops an entry of a closed cell only removes that entry.                 *)
C15_ClosedFinal ==
  /\ [](InTupleSearch
          => \A c \in closed_set :
               c \in DOMAIN g_costs /\ g_costs[c] = ShortestDist(FreeCells, start, c))
  /\ [][InTupleSearch
          => \A c \in closed_set :
               /\ c \in closed_set'
               /\ g_costs'[c] = g_costs[c]
               /\ IF c \in DOMAIN parents
                  THEN c \in DOMAIN parents' /\ parents'[c] = parents[c]
                  ELSE c \notin DOMAIN parents'
               /\ EntriesFor(open_heap', TupleKind, c) <= EntriesFor(open_heap, TupleKind, c)]_vars
  /\ [][(InTupleSearch /\ open_heap # <<>>
           /\ EntryPos(TupleKind, open_heap[1]) \in closed_set)
          => /\ Len(open_heap') = Len(open_heap) - 1
             /\ UNCHANGED <<g_costs, parents, closed_set, pushes, writes, pc, result>>]_vars

C15_Witness ==
  /\ InTupleSearch /\ open_heap # <<>>
  /\ EntryPos(TupleKind, open_heap[1]) \in closed_set

(* the open set of the running search, and f and h of one of its entries   *)
OpenEntries == IF engine \in {"AStarOptimized", "astar_simple"} THEN open_heap ELSE open_set

EntryKind ==
  CASE engine = "AStar" -> "node"
    [] engine = "AStarOptimized" -> "fhxy"
    [] OTHER -> "fpos"

EntryF(e) == IF engine = "AStar" THEN f_cost[e] ELSE e[1]

EntryH(e) ==
  CASE engine = "AStar" -> h_cost[e]
    [] engine = "AStarOptimized" -> e[2]
    [] OTHER -> manhattan_distance(e[2], goal)

(* the entry the next pop takes has the least f of the open set *)
PopsLeastF ==
  (pc = "search" /\ OpenEntries # <<>>)
    => LET top == heappop(OpenEntries, EntryKind, f_cost).item
       IN \A i \in 1 .. Len(OpenEntries) : EntryF(top) <= EntryF(OpenEntries[i])

(* and the least h among the entries with that f *)
PopsLeastHAmongLeastF ==
  (pc = "search" /\ OpenEntries # <<>>)
    => LET top == heappop(OpenEntries, EntryKind, f_cost).item
       IN \A i \in 1 .. Len(OpenEntries) :
            EntryF(top) = EntryF(OpenEntries[i]) => EntryH(top) <= EntryH(OpenEntries[i])

(* C16: in every engine each pop from the open set yields an entry whose f *)
(* is minimal among the entries then in the open set and whose h is        *)
(* minimal among the entries with that f.                                  *)
C16_PopMinimal == PopsLeastF /\ PopsLeastHAmongLeastF

(* C17: every find_path call that enters its loop ends (path, None or an   *)
(* error); until then each pop removes an entry that was pushed, the       *)
(* number of pushes stays within four per cell of the grid and one for     *)
(* start, and path reconstruction ends.                                    *)
C17_Terminates ==
  /\ [](/\ pops <= pushes
        /\ pushes <= 4 * Cardinality(Cells(width, height)) + 1
        /\ result.kind # "NoReturn")
  /\ (pc = "search" ~> pc = "done")

C17_Witness ==
  /\ pc = "done" /\ result.kind = "path" /\ obstacles # {}
  /\ pops >= 4 /\ pushes >= 5

(* the cells the running search has given a cost, their cost and their     *)
(* predecessor (None when they have none)                                  *)
Discovered ==
  CASE engine = "AStar" -> {c \in DOMAIN g_cost : g_cost[c] < Inf}
    [] engine = "DynamicAStar" -> DOMAIN g_score
    [] OTHER -> DOMAIN g_costs

GOf(c) ==
  CASE engine = "AStar" -> g_cost[c]
    [] engine = "DynamicAStar" -> g_score[c]
    [] OTHER -> g_costs[c]

PredOf(c) ==
  CASE engine = "AStar" -> parent[c]
    [] engine = "DynamicAStar" -> IF c \in DOMAIN came_from THEN came_from[c] ELSE NoneV
    [] OTHER -> IF c \in DOMAIN parents THEN parents[c] ELSE NoneV

(* C18: at every step of a search in AStar, AStarOptimized and             *)
(* DynamicAStar, start has cost 0 and no predecessor, and every other      *)
(* discovered cell n has a discovered predecessor 4-adjacent to n with     *)
(* g(n) = g(predecessor) + 1; the returned path is the predecessor chain   *)
(* from goal back to start, has g(goal) + 1 cells and repeats no cell.     *)
C18_PredecessorChain ==
  (engine \in {"AStar", "AStarOptimized", "DynamicAStar"} /\ Discovered # {})
    => /\ start \in Discovered /\ GOf(start) = 0 /\ PredOf(start) = NoneV
       /\ \A n \in Discovered \ {start} :
            /\ PredOf(n) \in Discovered
            /\ Adjacent(n, PredOf(n))
            /\ GOf(n) = GOf(PredOf(n)) + 1
       /\ (pc = "done" /\ result.kind \in {"path", "NoReturn", "KeyError"})
            => /\ result.kind = "path"
               /\ goal \in Discovered
               /\ Len(result.path) = GOf(goal) + 1
               /\ result.path[1] = start /\ result.path[Len(result.path)] = goal
               /\ \A i \in 1 .. Len(result.path) - 1 :
                    result.path[i] = PredOf(result.path[i + 1])
               /\ Cardinality(SeqToSet(result.path)) = Len(result.path)

C18_Witness ==
  /\ engine = "AStar" /\ pc = "done" /\ result.kind = "path" /\ obstacles # {}
  /\ Len(result.path) >= 4 /\ Len(result.path) = g_cost[goal] + 1
  /\ Cardinality(Discovered) > Len(result.path)

====
